---- MODULE Spec2Model ----
(***************************************************************************)
(* Alias resolution of buck2 (app/buck2_common/src/target_aliases.rs):     *)
(* the chain-following resolver resolve_alias, the capability interface     *)
(* get, the narrowed equality of resolver instances, and the memoized       *)
(* per-cell provider target_alias_resolver_for_cell.                        *)
(***************************************************************************)
EXTENDS Integers, Sequences, FiniteSets, TLC

\* ------------------------------------------------------------------------
\* Bounds
\* ------------------------------------------------------------------------
MaxEntries == 3        \* entries of an [alias] section in SpecResolve
MaxEqEntries == 2      \* entries of an [alias] section in SpecEq
NumCallers == 2        \* threads calling get on a shared resolver
MaxLater == 2          \* calls counted after the remembered call
NumRequesters == 2     \* tasks calling target_alias_resolver_for_cell
MaxChanges == 2        \* configuration changes per cell
MaxVersionLen == 6     \* characters of CFBundleShortVersionString
MaxConcEntries == 2    \* entries of an [alias] section in SpecConc

\* ------------------------------------------------------------------------
\* Strings are sequences of characters, so that contains(':') is computed.
\* ------------------------------------------------------------------------
Colon == ":"
sFoo == <<"f">>
sBar == <<"b">>
sBaz == <<"z">>
tFoo == <<"/", "/", ":", "f">>
tBar == <<"b", ":">>
Strings == {sFoo, sBar, sBaz, tFoo, tBar}

\* str::contains(char)
Contains(s, ch) == \E i \in DOMAIN s : s[i] = ch

None == [tag |-> "None"]
Some(v) == [tag |-> "Some", val |-> v]

\* ------------------------------------------------------------------------
\* LegacyBuckConfig: a mapping from section name to section; a section is a
\* mapping from key to value.
\* ------------------------------------------------------------------------
SectionNames == {"alias", "build"}

SectionsUpTo(n) ==
    UNION {[K -> Strings] : K \in {X \in SUBSET Strings : Cardinality(X) <= n}}

\* LegacyBuckConfig::get_section
get_section(config, name) == config[name]

\* LegacyBuckConfigSection::get
section_get(sec, key) == IF key \in DOMAIN sec THEN Some(sec[key]) ELSE None

\* ------------------------------------------------------------------------
\* AliasResolutionError and the result of resolve_alias
\* ------------------------------------------------------------------------
Ok(v) == [tag |-> "Ok", val |-> v, chain |-> <<>>, rep |-> <<>>]
MissingAliasSection ==
    [tag |-> "MissingAliasSection", val |-> <<>>, chain |-> <<>>, rep |-> <<>>]
NotAnAlias == [tag |-> "NotAnAlias", val |-> <<>>, chain |-> <<>>, rep |-> <<>>]
AliasChainBroken(chain) ==
    [tag |-> "AliasChainBroken", val |-> <<>>, chain |-> chain, rep |-> <<>>]
AliasCycle(chain, name) ==
    [tag |-> "AliasCycle", val |-> <<>>, chain |-> chain, rep |-> name]
NoResult == [tag |-> "NoResult", val |-> <<>>, chain |-> <<>>, rep |-> <<>>]

\* IndexSet::contains and IndexSet::insert on the visited stack
StackContainsButLast(stack, a) == \E i \in 1 .. (Len(stack) - 1) : stack[i] = a
StackContains(stack, a) == \E i \in DOMAIN stack : stack[i] = a
StackInsert(stack, a) == IF StackContains(stack, a) THEN stack ELSE Append(stack, a)

VARIABLES
    resolver,     \* resolver[i].config: the snapshot held by instance i
    pc,           \* pc[c]: "idle", "loop" or "done"
    inst,         \* inst[c]: the instance caller c calls get on
    req,          \* req[c]: the name passed to get
    alias,        \* alias[c]: the local `alias` of resolve_alias
    section,      \* section[c]: the local `section` of resolve_alias
    stack,        \* stack[c]: the local `stack` of resolve_alias
    lookups,      \* lookups[c]: number of section.get calls of this call
    res,          \* res[c]: what resolve_alias returned
    ret,          \* ret[c]: what get returned
    remembered,   \* one earlier finished call: its instance, name and results
    eqResult,     \* result of resolver[1] == resolver[2]
    cellConfig,   \* cellConfig[cell]: what the configuration subsystem answers
    changes,      \* changes[cell]: number of configuration changes so far
    cache,        \* cache[key]: the entry of the memoizing engine for key
    computes,     \* computes[cell]: computations started for the cell so far
    reqs,         \* reqs[r]: the state of requester r
    xcPlist,      \* what deserializing the Xcode Info.plist gave
    xcInfo        \* the XcodeVersionInfo built from it

rvars == <<pc, inst, req, alias, section, stack, lookups, res, ret, remembered>>
dvars == <<cellConfig, changes, cache, computes, reqs>>
xvars == <<xcPlist, xcInfo>>
vars == <<resolver, rvars, eqResult, dvars, xvars>>

Callers == 1 .. NumCallers
Instances == {1, 2}

\* ------------------------------------------------------------------------
\* BuckConfigTargetAliasResolver::resolve_alias
\* ------------------------------------------------------------------------
\* Line 91: IndexSet::new().  `old` is the stack a previous call left behind.
new_stack_reused(old) == old
new_stack(old) == <<>>

\* Lines 84-91: the ':' test on the argument, then the locals.
resolve_alias_entry(config, name, old) ==
    IF Contains(name, Colon)
    THEN [done |-> TRUE, res |-> NotAnAlias, alias |-> name,
          section |-> None, stack |-> old]
    ELSE [done |-> FALSE, res |-> NoResult, alias |-> name,
          section |-> get_section(config, "alias"), stack |-> new_stack(old)]

\* Lines 94-97: the error of a name met for the second time.
cycle_error_dup(st, al) == AliasCycle(Append(st, al), al)
cycle_error(st, al) == AliasCycle(st, al)

\* Lines 110-115: the error of a chain that ends at an undefined name.
broken_error_short(st, al) == AliasChainBroken(st)
broken_error(st, al) == AliasChainBroken(Append(st, al))

\* Lines 106-117: section.get(alias) is None.
lookup_miss_nocheck(st, al) == broken_error(st, al)
lookup_miss(st, al) ==
    IF st = <<>> THEN NotAnAlias ELSE broken_error(st, al)

\* Lines 102-105 and 122-125: section.get(alias) is Some(v).
lookup_hit_wrongtest(new_alias, st, al) ==
    LET st2 == StackInsert(st, al) IN
    IF Contains(al, Colon)
    THEN [done |-> TRUE, res |-> Ok(new_alias), alias |-> al, stack |-> st2,
          looked |-> 1]
    ELSE [done |-> FALSE, res |-> NoResult, alias |-> new_alias,
          stack |-> st2, looked |-> 1]
lookup_hit_twice(new_alias, st, al) ==
    LET st2 == StackInsert(st, al) IN
    IF Contains(new_alias, Colon)
    THEN [done |-> TRUE, res |-> Ok(new_alias), alias |-> al, stack |-> st2,
          looked |-> 2]
    ELSE [done |-> FALSE, res |-> NoResult, alias |-> new_alias,
          stack |-> st2, looked |-> 2]
lookup_hit_recordsvalue(new_alias, st, al) ==
    LET st2 == StackInsert(st, new_alias) IN
    IF Contains(new_alias, Colon)
    THEN [done |-> TRUE, res |-> Ok(new_alias), alias |-> al, stack |-> st2,
          looked |-> 1]
    ELSE [done |-> FALSE, res |-> NoResult, alias |-> new_alias,
          stack |-> st2, looked |-> 1]
lookup_hit(new_alias, st, al) ==
    LET st2 == StackInsert(st, al) IN
    IF Contains(new_alias, Colon)
    THEN [done |-> TRUE, res |-> Ok(new_alias), alias |-> al, stack |-> st2,
          looked |-> 1]
    ELSE [done |-> FALSE, res |-> NoResult, alias |-> new_alias,
          stack |-> st2, looked |-> 1]

Failed(e, st, al, n) ==
    [done |-> TRUE, res |-> e, alias |-> al, stack |-> st, looked |-> n]

\* Lines 92-126: one iteration of the loop.  `looked` tells whether the
\* iteration called section.get.
resolve_alias_iter_emptysection(sec, al, st) ==
    IF StackContains(st, al) THEN Failed(cycle_error(st, al), st, al, 0)
    ELSE IF sec.tag = "None" THEN Failed(NotAnAlias, st, al, 0)
    ELSE LET v == section_get(sec.val, al) IN
         IF v.tag = "None" THEN Failed(lookup_miss(st, al), st, al, 1)
         ELSE lookup_hit(v.val, st, al)
resolve_alias_iter(sec, al, st) ==
    IF StackContains(st, al) THEN Failed(cycle_error(st, al), st, al, 0)
    ELSE IF sec.tag = "None" THEN Failed(MissingAliasSection, st, al, 0)
    ELSE LET v == section_get(sec.val, al) IN
         IF v.tag = "None" THEN Failed(lookup_miss(st, al), st, al, 1)
         ELSE lookup_hit(v.val, st, al)

\* ------------------------------------------------------------------------
\* TargetAliasResolver::get: the match on the result of resolve_alias
\* ------------------------------------------------------------------------
NoRet == [tag |-> "NoRet", val |-> <<>>, source |-> NoResult, context |-> <<>>]
OkSome(a) == [tag |-> "OkSome", val |-> a, source |-> NoResult, context |-> <<>>]
OkNone == [tag |-> "OkNone", val |-> <<>>, source |-> NoResult, context |-> <<>>]
\* format!("Error resolving alias `{}`", name); the backquotes are written
\* as the token "BQ".
ErrorContext(name) == <<"Error resolving alias ", "BQ">> \o name \o <<"BQ">>
ErrWith(e, name) ==
    [tag |-> "Err", val |-> <<>>, source |-> e, context |-> ErrorContext(name)]

get_match_soft(r, name) ==
    CASE r.tag = "Ok" -> OkSome(r.val)
      [] r.tag \in {"MissingAliasSection", "NotAnAlias", "AliasChainBroken"} -> OkNone
      [] r.tag \in {"AliasCycle"} -> ErrWith(r, name)
      [] OTHER -> NoRet
get_match(r, name) ==
    CASE r.tag = "Ok" -> OkSome(r.val)
      [] r.tag \in {"MissingAliasSection", "NotAnAlias"} -> OkNone
      [] r.tag \in {"AliasChainBroken", "AliasCycle"} -> ErrWith(r, name)
      [] OTHER -> NoRet

\* ------------------------------------------------------------------------
\* Actions of a caller c calling get(name) on resolver instance i
\* ------------------------------------------------------------------------
NoMemory == [set |-> FALSE, inst |-> 1, name |-> <<>>, res |-> NoResult,
             ret |-> NoRet, later |-> 0]

\* Counts the calls started after the remembered one, up to MaxLater.
CountLater(m) ==
    IF m.set /\ m.later < MaxLater THEN [m EXCEPT !.later = @ + 1] ELSE m

\* get is entered: resolve_alias runs up to the head of its loop.
Start(c, i, name) ==
    /\ pc[c] = "idle"
    /\ LET e == resolve_alias_entry(resolver[i], name, stack[c]) IN
        /\ pc' = [pc EXCEPT ![c] = IF e.done THEN "done" ELSE "loop"]
        /\ inst' = [inst EXCEPT ![c] = i]
        /\ req' = [req EXCEPT ![c] = name]
        /\ alias' = [alias EXCEPT ![c] = e.alias]
        /\ section' = [section EXCEPT ![c] = e.section]
        /\ stack' = [stack EXCEPT ![c] = e.stack]
        /\ lookups' = [lookups EXCEPT ![c] = 0]
        /\ res' = [res EXCEPT ![c] = e.res]
        /\ ret' = [ret EXCEPT ![c] = IF e.done THEN get_match(e.res, name) ELSE NoRet]
    /\ remembered' = CountLater(remembered)
    /\ UNCHANGED <<xvars, resolver, eqResult, dvars>>

\* One iteration of the loop; when it returns, get maps the result.
LoopIter_sharedstack(c) ==
    /\ pc[c] = "loop"
    /\ LET s == resolve_alias_iter(section[c], alias[c], stack[1]) IN
        /\ pc' = [pc EXCEPT ![c] = IF s.done THEN "done" ELSE "loop"]
        /\ alias' = [alias EXCEPT ![c] = s.alias]
        /\ stack' = [stack EXCEPT ![1] = s.stack]
        /\ lookups' = [lookups EXCEPT ![c] = @ + s.looked]
        /\ res' = [res EXCEPT ![c] = s.res]
        /\ ret' = [ret EXCEPT ![c] = IF s.done THEN get_match(s.res, req[c]) ELSE NoRet]
    /\ UNCHANGED <<xvars, resolver, inst, req, section, remembered, eqResult, dvars>>
LoopIter(c) ==
    /\ pc[c] = "loop"
    /\ LET s == resolve_alias_iter(section[c], alias[c], stack[c]) IN
        /\ pc' = [pc EXCEPT ![c] = IF s.done THEN "done" ELSE "loop"]
        /\ alias' = [alias EXCEPT ![c] = s.alias]
        /\ stack' = [stack EXCEPT ![c] = s.stack]
        /\ lookups' = [lookups EXCEPT ![c] = @ + s.looked]
        /\ res' = [res EXCEPT ![c] = s.res]
        /\ ret' = [ret EXCEPT ![c] = IF s.done THEN get_match(s.res, req[c]) ELSE NoRet]
    /\ UNCHANGED <<xvars, resolver, inst, req, section, remembered, eqResult, dvars>>

\* The caller takes the result; the frame of the call is left behind.
Return(c) ==
    /\ pc[c] = "done"
    /\ pc' = [pc EXCEPT ![c] = "idle"]
    /\ UNCHANGED <<xvars, resolver, inst, req, alias, section, stack, lookups, res,
                   ret, remembered, eqResult, dvars>>

\* An observer keeps the result of one finished call to compare later calls
\* of the same name with it.
Remember(c) ==
    /\ pc[c] = "done"
    /\ ~remembered.set
    /\ remembered' = [set |-> TRUE, inst |-> inst[c], name |-> req[c],
                      res |-> res[c], ret |-> ret[c], later |-> 0]
    /\ UNCHANGED <<xvars, resolver, pc, inst, req, alias, section, stack, lookups,
                   res, ret, eqResult, dvars>>

\* ------------------------------------------------------------------------
\* SpecResolve: one caller on one resolver instance
\* ------------------------------------------------------------------------
Configs(n) ==
    {[s \in SectionNames |-> IF s = "alias" THEN a ELSE None] :
        a \in {None} \cup {Some(m) : m \in SectionsUpTo(n)}}

\* The provider is not used: no cell, no requester.
InitNoProvider ==
    /\ cellConfig = <<>>
    /\ changes = <<>>
    /\ cache = <<>>
    /\ computes = <<>>
    /\ reqs = <<>>

\* No Info.plist is read.
InitNoXcode ==
    /\ xcPlist = <<>>
    /\ xcInfo = <<>>

InitCalls ==
    /\ pc = [c \in Callers |-> "idle"]
    /\ inst = [c \in Callers |-> 1]
    /\ req = [c \in Callers |-> <<>>]
    /\ alias = [c \in Callers |-> <<>>]
    /\ section = [c \in Callers |-> None]
    /\ stack = [c \in Callers |-> <<>>]
    /\ lookups = [c \in Callers |-> 0]
    /\ res = [c \in Callers |-> NoResult]
    /\ ret = [c \in Callers |-> NoRet]
    /\ remembered = NoMemory

InitResolve ==
    /\ \E cfg \in Configs(MaxEntries) : resolver = [i \in Instances |-> cfg]
    /\ InitCalls
    /\ InitNoXcode
    /\ eqResult = "none"
    /\ InitNoProvider

NextResolve ==
    \/ \E name \in Strings : Start(1, 1, name)
    \/ LoopIter(1)
    \/ Return(1)
    \/ Remember(1)

SpecResolve == InitResolve /\ [][NextResolve]_vars

\* ------------------------------------------------------------------------
\* PartialEq for BuckConfigTargetAliasResolver
\* ------------------------------------------------------------------------
\* LegacyBuckConfigSection::compare: same keys, same value for every key.
compare(a, b) ==
    /\ DOMAIN a = DOMAIN b
    /\ \A k \in DOMAIN a : a[k] = b[k]

\* Lines 47-58.
eq_derived(self, other) == self = other
eq_keysonly(self, other) ==
    LET self_aliases == get_section(self, "alias")
        other_aliases == get_section(other, "alias")
    IN CASE self_aliases.tag = "Some" /\ other_aliases.tag = "Some" ->
                DOMAIN self_aliases.val = DOMAIN other_aliases.val
         [] self_aliases.tag = "None" /\ other_aliases.tag = "None" -> TRUE
         [] OTHER -> FALSE
eq_absent_as_empty(self, other) ==
    LET self_aliases == get_section(self, "alias")
        other_aliases == get_section(other, "alias")
    IN CASE self_aliases.tag = "Some" /\ other_aliases.tag = "Some" ->
                compare(self_aliases.val, other_aliases.val)
         [] self_aliases.tag = "None" /\ other_aliases.tag = "None" -> TRUE
         [] self_aliases.tag = "None" -> DOMAIN other_aliases.val = {}
         [] OTHER -> DOMAIN self_aliases.val = {}
eq(self, other) ==
    LET self_aliases == get_section(self, "alias")
        other_aliases == get_section(other, "alias")
    IN CASE self_aliases.tag = "Some" /\ other_aliases.tag = "Some" ->
                compare(self_aliases.val, other_aliases.val)
         [] self_aliases.tag = "None" /\ other_aliases.tag = "None" -> TRUE
         [] OTHER -> FALSE

\* self == other is evaluated on the two instances.
Compare ==
    /\ eqResult = "none"
    /\ eqResult' = IF eq(resolver[1], resolver[2]) THEN "equal" ELSE "unequal"
    /\ UNCHANGED <<xvars, resolver, rvars, dvars>>

\* ------------------------------------------------------------------------
\* SpecEq: two resolver instances over configurations that vary inside and
\* outside the [alias] section
\* ------------------------------------------------------------------------
EqStrings == {sFoo, sBar, tFoo}

EqSections(n) ==
    UNION {[K -> EqStrings] : K \in {X \in SUBSET EqStrings : Cardinality(X) <= n}}

BuildSections == {None, Some([k \in {sBar} |-> sBaz])}

EqConfigs(n) ==
    {[s \in SectionNames |-> IF s = "alias" THEN a ELSE b] :
        a \in {None} \cup {Some(m) : m \in EqSections(n)}, b \in BuildSections}

InitEq ==
    /\ resolver \in [Instances -> EqConfigs(MaxEqEntries)]
    /\ InitCalls
    /\ InitNoXcode
    /\ eqResult = "none"
    /\ InitNoProvider

NextEq == Compare

SpecEq == InitEq /\ [][NextEq]_vars

\* ------------------------------------------------------------------------
\* The memoized provider: TargetAliasResolverKey and
\* target_alias_resolver_for_cell on the memoizing engine
\* ------------------------------------------------------------------------
Cells == {"root"}
Requesters == 1 .. NumRequesters
MaxComputes == MaxChanges + 2

\* What get_legacy_config_for_cell answers: a configuration or an error.
NoConfig == [s \in SectionNames |-> None]
OkCfg(c) == [tag |-> "Ok", cfg |-> c, err |-> "none"]
ErrCfg(e) == [tag |-> "Err", cfg |-> NoConfig, err |-> e]

cfgA == [s \in SectionNames |-> IF s = "alias" THEN Some([k \in {sFoo} |-> tFoo]) ELSE None]
cfgA2 == [s \in SectionNames |->
            IF s = "alias" THEN Some([k \in {sFoo} |-> tFoo])
            ELSE Some([k \in {sBar} |-> sBaz])]
cfgB == [s \in SectionNames |-> IF s = "alias" THEN Some([k \in {sFoo} |-> tBar]) ELSE None]
ConfigResults == {OkCfg(cfgA), OkCfg(cfgA2), OkCfg(cfgB), ErrCfg("unreadable")}

\* SharedResult<BuckConfigTargetAliasResolver>
OkR(r) == [tag |-> "Ok", val |-> r, err |-> "none"]
ErrR(e) == [tag |-> "Err", val |-> NoConfig, err |-> e]
NoValue == [tag |-> "NoValue", val |-> NoConfig, err |-> "none"]

\* LegacyBuckConfig::target_alias_resolver: the resolver holds the config.
target_alias_resolver(config) == config

\* Lines 152-159.
compute_default(cfgResult) == OkR(target_alias_resolver(cfgResult.cfg))
compute(cfgResult) ==
    IF cfgResult.tag = "Err" THEN ErrR(cfgResult.err)
    ELSE OkR(target_alias_resolver(cfgResult.cfg))

\* Lines 161-166: Key::equality on two computed values.
equality_never(x, y) == FALSE
equality_derived(x, y) ==
    IF x.tag = "Ok" /\ y.tag = "Ok" THEN eq(x.val, y.val) ELSE x = y
equality(x, y) ==
    IF x.tag = "Ok" /\ y.tag = "Ok" THEN eq(x.val, y.val) ELSE FALSE

\* Lines 152-156: compute receives the CancellationContext and never looks
\* at it, so a cancelled waiter does not make the computation give up.
gives_up_when_told(cancelled) == cancelled
gives_up(cancelled) == FALSE

\* Line 176: the key of a request is the cell name alone.
KeyPerCaller(r, cell) == [cell_name |-> cell, caller |-> r]
KeyOf(r, cell) == [cell_name |-> cell, caller |-> 0]
NoKey == [cell_name |-> "none", caller |-> 0]

\* Lines 175-177: `.await??` turns the engine's answer into anyhow::Result.
AnyOk(r) == [tag |-> "Ok", val |-> r, err |-> <<>>]
AnyErr(kind, e) == [tag |-> "Err", val |-> NoConfig, err |-> <<kind, e>>]
NoAnswer == [tag |-> "NoAnswer", val |-> NoConfig, err |-> <<>>]
DiceOk(v) == [tag |-> "DiceOk", val |-> v]
await_result(d) ==
    CASE d.tag # "DiceOk" -> AnyErr("dice", d.tag)
      [] d.val.tag = "Ok" -> AnyOk(d.val.val)
      [] OTHER -> AnyErr("shared", d.val.err)

IdleReq == [pc |-> "idle", cell |-> "none", key |-> NoKey, id |-> 0,
            how |-> "none", res |-> NoAnswer]

CachePut(key, entry) ==
    [k \in DOMAIN cache \cup {key} |-> IF k = key THEN entry ELSE cache[k]]

\* The engine is asked for `key` by requester r: a completed entry is
\* returned, an in-flight computation is joined, otherwise a computation
\* is started.
DiceCompute(r, key, cell) ==
    IF key \in DOMAIN cache /\ cache[key].state = "done"
    THEN /\ reqs' = [reqs EXCEPT ![r] =
                [pc |-> "got", cell |-> cell, key |-> key, id |-> cache[key].id,
                 how |-> "hit", res |-> await_result(DiceOk(cache[key].value))]]
         /\ UNCHANGED <<cache, computes>>
    ELSE IF key \in DOMAIN cache /\ cache[key].state = "running"
    THEN /\ reqs' = [reqs EXCEPT ![r] =
                [pc |-> "waiting", cell |-> cell, key |-> key,
                 id |-> cache[key].id, how |-> "joined", res |-> NoAnswer]]
         /\ UNCHANGED <<cache, computes>>
    ELSE /\ computes[cell] < MaxComputes
         /\ cache' = CachePut(key,
                [cell |-> cell, state |-> "running", input |-> cellConfig[cell],
                 value |-> IF key \in DOMAIN cache THEN cache[key].value ELSE NoValue,
                 id |-> computes[cell] + 1, invalidated |-> FALSE,
                 prev |-> NoValue, notify |-> "none", cancelled |-> FALSE])
         /\ computes' = [computes EXCEPT ![cell] = @ + 1]
         /\ reqs' = [reqs EXCEPT ![r] =
                [pc |-> "waiting", cell |-> cell, key |-> key,
                 id |-> computes[cell] + 1, how |-> "started", res |-> NoAnswer]]

\* Lines 171-178: target_alias_resolver_for_cell(cell_name) by requester r.
GetResolver(r, cell) ==
    /\ reqs[r].pc = "idle"
    /\ DiceCompute(r, KeyOf(r, cell), cell)
    /\ UNCHANGED <<xvars, resolver, rvars, eqResult, cellConfig, changes>>

\* The computation of `key` completes: Key::compute returns, the value is
\* stored and every requester waiting for it receives it.  When the entry
\* held a value before, Key::equality decides whether the dependents of the
\* key are told of a change.
ComputeFinish(key) ==
    /\ key \in DOMAIN cache
    /\ cache[key].state = "running"
    /\ LET e == cache[key]
           v == IF gives_up(e.cancelled) THEN ErrR("cancelled")
                ELSE compute(e.input)
           told == IF e.value.tag = "NoValue" THEN "changed"
                   ELSE IF equality(e.value, v) THEN "unchanged"
                   ELSE "changed"
       IN /\ cache' = [cache EXCEPT ![key] =
                  [e EXCEPT !.state = IF e.invalidated THEN "stale" ELSE "done",
                            !.value = v, !.invalidated = FALSE,
                            !.prev = e.value, !.notify = told]]
          /\ reqs' = [r \in Requesters |->
                  IF reqs[r].pc = "waiting" /\ reqs[r].key = key
                  THEN [reqs[r] EXCEPT !.pc = "got",
                                       !.res = await_result(DiceOk(v))]
                  ELSE reqs[r]]
    /\ UNCHANGED <<xvars, resolver, rvars, eqResult, cellConfig, changes, computes>>

\* The configuration of a cell changes: its entries must be recomputed on
\* the next access.
ConfigChange(cell, new) ==
    /\ changes[cell] < MaxChanges
    /\ new # cellConfig[cell]
    /\ cellConfig' = [cellConfig EXCEPT ![cell] = new]
    /\ changes' = [changes EXCEPT ![cell] = @ + 1]
    /\ cache' = [k \in DOMAIN cache |->
            IF cache[k].cell # cell THEN cache[k]
            ELSE IF cache[k].state = "done" THEN [cache[k] EXCEPT !.state = "stale"]
            ELSE IF cache[k].state = "running" THEN [cache[k] EXCEPT !.invalidated = TRUE]
            ELSE cache[k]]
    /\ UNCHANGED <<xvars, resolver, rvars, eqResult, computes, reqs>>

\* The requester takes its answer.
Release(r) ==
    /\ reqs[r].pc = "got"
    /\ reqs' = [reqs EXCEPT ![r] = IdleReq]
    /\ UNCHANGED <<xvars, resolver, rvars, eqResult, cellConfig, changes, cache, computes>>

InitDice ==
    /\ resolver = [i \in Instances |-> cfgA]
    /\ InitCalls
    /\ InitNoXcode
    /\ eqResult = "none"
    /\ cellConfig \in [Cells -> ConfigResults]
    /\ changes = [c \in Cells |-> 0]
    /\ cache = <<>>
    /\ computes = [c \in Cells |-> 0]
    /\ reqs = [r \in Requesters |-> IdleReq]

NextDice ==
    \/ \E r \in Requesters, cell \in Cells : GetResolver(r, cell)
    \/ \E key \in DOMAIN cache : ComputeFinish(key)
    \/ \E cell \in Cells, new \in ConfigResults : ConfigChange(cell, new)
    \/ \E r \in Requesters : Release(r)

SpecDice == InitDice /\ [][NextDice]_vars

\* ------------------------------------------------------------------------
\* SpecCancel: the provider with requesters that may give up waiting, under
\* a configuration that stays as it is
\* ------------------------------------------------------------------------
WaitersOf(key) ==
    {r \in Requesters : reqs[r].pc = "waiting" /\ reqs[r].key = key}

\* The future of requester r is dropped while it waits.
Cancel(r) ==
    /\ reqs[r].pc = "waiting"
    /\ reqs' = [reqs EXCEPT ![r] = IdleReq]
    /\ cache' = [cache EXCEPT ![reqs[r].key].cancelled = TRUE]
    /\ UNCHANGED <<xvars, resolver, rvars, eqResult, cellConfig, changes, computes>>

\* A computation nobody waits for any more is cancelled by the engine; the
\* entry keeps the value it had and is recomputed on the next access.
Drop(key) ==
    /\ key \in DOMAIN cache
    /\ cache[key].state = "running"
    /\ WaitersOf(key) = {}
    /\ cache' = [cache EXCEPT ![key].state = "cancelled"]
    /\ UNCHANGED <<xvars, resolver, rvars, eqResult, cellConfig, changes, computes, reqs>>

NextCancel ==
    \/ \E r \in Requesters, cell \in Cells : GetResolver(r, cell)
    \/ \E key \in DOMAIN cache : ComputeFinish(key)
    \/ \E r \in Requesters : Release(r)
    \/ \E r \in Requesters : Cancel(r)
    \/ \E key \in DOMAIN cache : Drop(key)

SpecCancel == InitDice /\ [][NextCancel]_vars

\* ------------------------------------------------------------------------
\* SpecEqResolve: the two instances are compared, then the same name is
\* looked up on instance 1 by caller 1 and on instance 2 by caller 2
\* ------------------------------------------------------------------------
NextEqResolve ==
    \/ Compare
    \/ \E name \in EqStrings : eqResult # "none" /\ Start(1, 1, name)
    \/ LoopIter(1)
    \/ pc[1] = "done" /\ Start(2, 2, req[1])
    \/ LoopIter(2)

SpecEqResolve == InitEq /\ [][NextEqResolve]_vars

\* ------------------------------------------------------------------------
\* SpecConc: several callers on one shared resolver instance
\* ------------------------------------------------------------------------
InitConc ==
    /\ \E cfg \in EqConfigs(MaxConcEntries) : resolver = [i \in Instances |-> cfg]
    /\ InitCalls
    /\ InitNoXcode
    /\ eqResult = "none"
    /\ InitNoProvider

NextConc ==
    \E c \in Callers :
        \/ \E name \in EqStrings : Start(c, 1, name)
        \/ LoopIter(c)
        \/ Return(c)

SpecConc == InitConc /\ [][NextConc]_vars

\* ------------------------------------------------------------------------
\* XcodeVersionInfo::from_info_plist (buck2_interpreter/src/extra/xcode.rs)
\* ------------------------------------------------------------------------
Dot == "."
VersionChars == {"1", "4", "0", Dot}
VersionStrings(n) == UNION {[1 .. k -> VersionChars] : k \in 0 .. n}

\* plist::from_file(plist_path): the short version string, or an error.
PlistOk(v) == [tag |-> "Ok", CFBundleShortVersionString |-> v]
PlistErr == [tag |-> "Err", CFBundleShortVersionString |-> <<>>]

\* str::split(char): the pieces between the separators, in order; a string
\* without separator is its own single piece.
RECURSIVE Split(_, _)
Split(s, ch) ==
    IF ~Contains(s, ch) THEN <<s>>
    ELSE LET i == CHOOSE j \in DOMAIN s :
                      s[j] = ch /\ \A h \in 1 .. (j - 1) : s[h] # ch
         IN <<SubSeq(s, 1, i - 1)>> \o Split(SubSeq(s, i + 1, Len(s)), ch)

\* Iterator::next taken n times: the n-th piece if there is one.
NthNext(parts, n) == IF n <= Len(parts) THEN Some(parts[n]) ELSE None

NoInfo == [tag |-> "NoInfo"]
InfoErr(context) == [tag |-> "Err", context |-> context]
InfoOk(version, major, minor, patch, build) ==
    [tag |-> "Ok", version_string |-> version, major_version |-> major,
     minor_version |-> minor, patch_version |-> patch, build_number |-> build]

\* Lines 53-73.
from_info_plist_nodefault(plist) ==
    IF plist.tag = "Err" THEN InfoErr("deserializing Xcode Info.plist")
    ELSE LET version_parts == Split(plist.CFBundleShortVersionString, Dot)
         IN InfoOk(Some(plist.CFBundleShortVersionString),
                   NthNext(version_parts, 1), NthNext(version_parts, 2),
                   NthNext(version_parts, 3), None)
from_info_plist(plist) ==
    IF plist.tag = "Err" THEN InfoErr("deserializing Xcode Info.plist")
    ELSE LET version_parts == Split(plist.CFBundleShortVersionString, Dot)
             major == NthNext(version_parts, 1)
             minor == NthNext(version_parts, 2)
             third == NthNext(version_parts, 3)
             patch == IF third.tag = "Some" THEN third ELSE Some(<<"0">>)
         IN InfoOk(Some(plist.CFBundleShortVersionString), major, minor,
                   patch, None)

FromInfoPlist ==
    /\ xcInfo = NoInfo
    /\ xcInfo' = from_info_plist(xcPlist)
    /\ UNCHANGED <<xcPlist, resolver, rvars, eqResult, dvars>>

InitXcode ==
    /\ xcPlist \in {PlistErr} \cup {PlistOk(v) : v \in VersionStrings(MaxVersionLen)}
    /\ xcInfo = NoInfo
    /\ resolver = [i \in Instances |-> [s \in SectionNames |-> None]]
    /\ InitCalls
    /\ eqResult = "none"
    /\ InitNoProvider

NextXcode == FromInfoPlist

SpecXcode == InitXcode /\ [][NextXcode]_vars

\* ------------------------------------------------------------------------
\* Following alias links, stated without the loop: Link(sec, name, i) is the
\* name reached after i links.
\* ------------------------------------------------------------------------
Undefined == <<"undefined">>

RECURSIVE Link(_, _, _)
Link(sec, name, i) ==
    IF i = 0 THEN name
    ELSE LET p == Link(sec, name, i - 1) IN
         IF p \in DOMAIN sec THEN sec[p] ELSE Undefined

Visited(sec, name, n) == [i \in 1 .. n |-> Link(sec, name, i - 1)]

\* The first n names reached are distinct, defined, and none of their values
\* contains ':'.
FollowsLinks(sec, name, n) ==
    /\ \A i \in 0 .. (n - 1) :
          /\ Link(sec, name, i) \in DOMAIN sec
          /\ ~Contains(sec[Link(sec, name, i)], Colon)
    /\ \A i, j \in 0 .. (n - 1) :
          i # j => Link(sec, name, i) # Link(sec, name, j)

AliasSectionOf(c) == get_section(resolver[inst[c]], "alias")

\* A finished call of a name without ':' on a resolver that has the section.
FinishedOnSection(c) ==
    /\ pc[c] = "done"
    /\ ~Contains(req[c], Colon)
    /\ AliasSectionOf(c).tag = "Some"

Steps(c) == 0 .. Cardinality(DOMAIN AliasSectionOf(c).val)

\* C1: if following links from a name without ':' reaches, with no name
\* visited twice and no undefined name met, an entry whose value contains
\* ':', then resolve_alias returns Ok with exactly that value.
C1_ResolvesToFirstTarget ==
    \A c \in Callers : FinishedOnSection(c) =>
        LET sec == AliasSectionOf(c).val IN
        \A n \in Steps(c) :
            ( /\ FollowsLinks(sec, req[c], n)
              /\ Link(sec, req[c], n) \in DOMAIN sec
              /\ \A i \in 0 .. (n - 1) : Link(sec, req[c], i) # Link(sec, req[c], n)
              /\ Contains(sec[Link(sec, req[c], n)], Colon) )
            => res[c] = Ok(sec[Link(sec, req[c], n)])

\* A call resolved through at least two links to a target that is itself a
\* key of the section.
C1_Witness ==
    \E c \in Callers :
        /\ FinishedOnSection(c)
        /\ res[c].tag = "Ok"
        /\ Len(stack[c]) >= 2
        /\ res[c].val \in DOMAIN AliasSectionOf(c).val

\* C2: if following links arrives at a name already visited in the call,
\* resolve_alias fails with AliasCycle(chain, repeated), chain being all
\* names visited in order from the requested name, repeated the name met
\* for the second time.
C2_CycleReported ==
    \A c \in Callers : FinishedOnSection(c) =>
        LET sec == AliasSectionOf(c).val IN
        \A n \in Steps(c) :
            ( /\ FollowsLinks(sec, req[c], n)
              /\ \E i \in 0 .. (n - 1) : Link(sec, req[c], i) = Link(sec, req[c], n) )
            => res[c] = AliasCycle(Visited(sec, req[c], n), Link(sec, req[c], n))

\* A cycle entered through a prefix: the repeated name is not the requested
\* one.
C2_Witness ==
    \E c \in Callers :
        /\ FinishedOnSection(c)
        /\ res[c].tag = "AliasCycle"
        /\ Len(res[c].chain) >= 2
        /\ res[c].rep # req[c]

\* C3: if following links has visited at least one defined alias and then
\* arrives at a name with no entry, resolve_alias fails with
\* AliasChainBroken whose chain is the visited names in order followed by
\* the undefined name.
C3_BrokenChainReported ==
    \A c \in Callers : FinishedOnSection(c) =>
        LET sec == AliasSectionOf(c).val IN
        \A n \in Steps(c) :
            ( /\ n >= 1
              /\ FollowsLinks(sec, req[c], n)
              /\ Link(sec, req[c], n) \notin DOMAIN sec )
            => res[c] = AliasChainBroken(Visited(sec, req[c], n + 1))

\* A chain of two defined aliases that ends at an undefined third name.
C3_Witness ==
    \E c \in Callers :
        /\ FinishedOnSection(c)
        /\ res[c].tag = "AliasChainBroken"
        /\ Len(res[c].chain) = 3

\* C4: resolve_alias returns NotAnAlias exactly when the name contains ':'
\* (then with no lookup at all) or when the name has no ':', the section
\* is present and the name has no entry in it.
C4_NotAnAliasExactly ==
    \A c \in Callers : pc[c] = "done" =>
        /\ res[c] = NotAnAlias <=>
              \/ Contains(req[c], Colon)
              \/ /\ ~Contains(req[c], Colon)
                 /\ AliasSectionOf(c).tag = "Some"
                 /\ req[c] \notin DOMAIN AliasSectionOf(c).val
        /\ Contains(req[c], Colon) => lookups[c] = 0

\* A name with ':' that is a key of the section is still not an alias.
C4_Witness ==
    \E c \in Callers :
        /\ pc[c] = "done"
        /\ res[c] = NotAnAlias
        /\ Contains(req[c], Colon)
        /\ AliasSectionOf(c).tag = "Some"
        /\ req[c] \in DOMAIN AliasSectionOf(c).val

\* C5: without an alias section every name without ':' fails with
\* MissingAliasSection, and MissingAliasSection is returned only when the
\* section is absent.
C5_MissingSectionExactly ==
    \A c \in Callers : pc[c] = "done" =>
        /\ (AliasSectionOf(c).tag = "None" /\ ~Contains(req[c], Colon))
              => res[c] = MissingAliasSection
        /\ res[c] = MissingAliasSection => AliasSectionOf(c).tag = "None"

C5_Witness ==
    \E c \in Callers :
        /\ pc[c] = "done"
        /\ AliasSectionOf(c).tag = "None"
        /\ ~Contains(req[c], Colon)
        /\ res[c] = MissingAliasSection

\* C6: get answers Some(target) for a resolved name, None for
\* MissingAliasSection and NotAnAlias, and for AliasChainBroken and
\* AliasCycle an error that wraps the original error with the requested name.
C6_GetMapsOutcomes ==
    \A c \in Callers : pc[c] = "done" =>
        /\ res[c].tag \in {"Ok", "MissingAliasSection", "NotAnAlias",
                            "AliasChainBroken", "AliasCycle"}
        /\ res[c].tag = "Ok" => (ret[c].tag = "OkSome" /\ ret[c].val = res[c].val)
        /\ res[c].tag \in {"MissingAliasSection", "NotAnAlias"} => ret[c].tag = "OkNone"
        /\ res[c].tag \in {"AliasChainBroken", "AliasCycle"} =>
              /\ ret[c].tag = "Err"
              /\ ret[c].source = res[c]
              /\ \E i \in 1 .. Len(ret[c].context) :
                     SubSeq(ret[c].context, i, i + Len(req[c]) - 1) = req[c]

\* A dangling chain reached through get: a hard error naming the request.
C6_Witness ==
    \E c \in Callers :
        /\ pc[c] = "done"
        /\ res[c].tag = "AliasChainBroken"
        /\ ret[c].tag = "Err"

\* C7: a call of a name on an instance returns what an earlier call of the
\* same name on the same instance returned, whatever calls ran in between.
C7_Deterministic ==
    \A c \in Callers :
        ( /\ pc[c] = "done"
          /\ remembered.set
          /\ remembered.inst = inst[c]
          /\ remembered.name = req[c] )
        => (res[c] = remembered.res /\ ret[c] = remembered.ret)

\* The second call after the remembered one repeats its name and has
\* followed a link.
C7_Witness ==
    \E c \in Callers :
        /\ pc[c] = "done"
        /\ remembered.set
        /\ remembered.later = 2
        /\ remembered.inst = inst[c]
        /\ remembered.name = req[c]
        /\ Len(stack[c]) >= 1
        /\ ~Contains(req[c], Colon)
\* The (key, value) pairs of the [alias] section of instance i, which has
\* that section.
AliasPairs(i) ==
    LET a == resolver[i]["alias"] IN {<<k, a.val[k]>> : k \in DOMAIN a.val}

AliasPresent(i) == resolver[i]["alias"].tag = "Some"

\* C8: two resolver instances are equal exactly when their alias sections
\* hold the same key-value pairs (or are both absent); what the
\* configurations hold outside the alias section does not matter.
C8_EqIffAliasSectionsEqual ==
    eqResult # "none" =>
        (eqResult = "equal" <=>
            \/ ~AliasPresent(1) /\ ~AliasPresent(2)
            \/ AliasPresent(1) /\ AliasPresent(2) /\ AliasPairs(1) = AliasPairs(2))

\* Two configurations that differ, but only outside a non-empty alias
\* section, compared equal.
C8_Witness ==
    /\ eqResult = "equal"
    /\ resolver[1] # resolver[2]
    /\ AliasPresent(1)
    /\ AliasPairs(1) # {}
\* The entries of the cell that hold an in-flight computation.
RunningFor(cell) ==
    {k \in DOMAIN cache : cache[k].cell = cell /\ cache[k].state = "running"}

\* The answer a requester must hold for the shared value v.
AnswerIs(a, v) ==
    /\ v.tag = "Ok" => (a.tag = "Ok" /\ a.val = v.val)
    /\ v.tag = "Err" => (a.tag = "Err" /\ a.err[2] = v.err)
    /\ v.tag \in {"Ok", "Err"}

\* C9: at most one computation of a cell is in flight; every configuration
\* of the cell is computed at most once however many requesters ask; a
\* waiting requester waits for the one in-flight computation, and a served
\* requester holds the value that computation stored.
C9_OneComputationPerCell ==
    \A cell \in Cells :
        /\ Cardinality(RunningFor(cell)) <= 1
        /\ computes[cell] <= changes[cell] + 1
        /\ \A r \in Requesters :
              /\ (reqs[r].pc = "waiting" /\ reqs[r].cell = cell) =>
                    \E k \in RunningFor(cell) : cache[k].id = reqs[r].id
              /\ (reqs[r].pc = "got" /\ reqs[r].cell = cell) =>
                    \A k \in DOMAIN cache :
                        (cache[k].cell = cell /\ cache[k].id = reqs[r].id) =>
                            /\ cache[k].state # "running"
                            /\ AnswerIs(reqs[r].res, cache[k].value)

\* Two requesters of one cell, one of which joined the computation the other
\* started, both served by the only computation there has been.
C9_Witness ==
    \E r1, r2 \in Requesters, cell \in Cells :
        /\ reqs[r1].pc = "got" /\ reqs[r1].cell = cell /\ reqs[r1].how = "started"
        /\ reqs[r2].pc = "got" /\ reqs[r2].cell = cell /\ reqs[r2].how = "joined"
        /\ reqs[r1].id = reqs[r2].id
        /\ reqs[r1].res = reqs[r2].res
        /\ computes[cell] = 1

\* Requester r enters target_alias_resolver_for_cell in this step.
Enters(r) == reqs[r].pc = "idle" /\ reqs'[r].pc # "idle"

\* The completed, still valid entry of the cell holds a failure.
FailureCached(k) == cache[k].state = "done" /\ cache[k].value.tag = "Err"

\* C10: a computation whose configuration could not be read stores that
\* failure and hands it to every requester waiting for it; while the
\* configuration is unchanged a later request is answered with the stored
\* failure and starts no computation; once the configuration has changed
\* the next request starts a new computation.
C10_FailureCachedUntilChange ==
    [][ /\ \A k \in DOMAIN cache :
             (cache[k].state = "running" /\ cache'[k].state # "running"
                 /\ cache[k].input.tag = "Err") =>
                /\ cache'[k].value.tag = "Err"
                /\ cache'[k].value.err = cache[k].input.err
                /\ \A r \in Requesters :
                      (reqs[r].pc = "waiting" /\ reqs[r].cell = cache[k].cell) =>
                         /\ reqs'[r].pc = "got"
                         /\ AnswerIs(reqs'[r].res, cache'[k].value)
        /\ \A r \in Requesters : Enters(r) =>
             \A k \in DOMAIN cache : cache[k].cell = reqs'[r].cell =>
                /\ FailureCached(k) =>
                      /\ reqs'[r].pc = "got"
                      /\ AnswerIs(reqs'[r].res, cache[k].value)
                      /\ computes' = computes
                      /\ cache' = cache
                /\ (cache[k].state = "stale" /\ cache[k].value.tag = "Err") =>
                      /\ computes'[cache[k].cell] = computes[cache[k].cell] + 1
                      /\ RunningFor(cache[k].cell)' # {}
      ]_vars

\* A request answered from the stored failure while the requester that
\* started the failed computation still holds the same failure.
C10_Witness ==
    \E r1, r2 \in Requesters :
        /\ reqs[r1].pc = "got" /\ reqs[r1].how = "started"
        /\ reqs[r2].pc = "got" /\ reqs[r2].how = "hit"
        /\ reqs[r1].cell = reqs[r2].cell
        /\ reqs[r1].id = reqs[r2].id
        /\ reqs[r2].res.tag = "Err"
        /\ reqs[r1].res = reqs[r2].res
\* The positions of the dots of a version string, and its i-th component
\* taken as the characters between the (i-1)-th and the i-th dot.
DotsOf(s) == {j \in DOMAIN s : s[j] = Dot}
DotAt(s, k) ==
    IF k = 0 THEN 0
    ELSE IF k > Cardinality(DotsOf(s)) THEN Len(s) + 1
    ELSE CHOOSE j \in DotsOf(s) : Cardinality({d \in DotsOf(s) : d <= j}) = k
ComponentOf(s, i) == SubSeq(s, DotAt(s, i - 1) + 1, DotAt(s, i) - 1)
NumComponents(s) == Cardinality(DotsOf(s)) + 1

\* C14: from_info_plist gives the first dot-separated component as major,
\* the second as minor (absent when there is none), the third as patch
\* ("0" when there is none), the whole string as version_string and no
\* build number.
C14_VersionComponents ==
    (xcInfo # NoInfo /\ xcPlist.tag = "Ok") =>
        LET v == xcPlist.CFBundleShortVersionString IN
        /\ xcInfo.tag = "Ok"
        /\ xcInfo.version_string = Some(v)
        /\ xcInfo.major_version = Some(ComponentOf(v, 1))
        /\ xcInfo.minor_version =
              IF NumComponents(v) >= 2 THEN Some(ComponentOf(v, 2)) ELSE None
        /\ xcInfo.patch_version =
              IF NumComponents(v) >= 3 THEN Some(ComponentOf(v, 3)) ELSE Some(<<"0">>)
        /\ xcInfo.build_number = None

\* "14.0" was parsed into (14, 0, 0).
C14_Witness ==
    /\ xcPlist = PlistOk(<<"1", "4", Dot, "0">>)
    /\ xcInfo # NoInfo
    /\ xcInfo.major_version = Some(<<"1", "4">>)
    /\ xcInfo.minor_version = Some(<<"0">>)
    /\ xcInfo.patch_version = Some(<<"0">>)
\* Following links from the requested name of call c reaches after n links
\* an entry whose value contains ':', with no name met twice: the chain of
\* visited alias names Link(0) .. Link(n) has n + 1 names.
ChainEndsAt(c, n) ==
    LET sec == AliasSectionOf(c).val IN
    /\ FollowsLinks(sec, req[c], n)
    /\ Link(sec, req[c], n) \in DOMAIN sec
    /\ \A i \in 0 .. (n - 1) : Link(sec, req[c], i) # Link(sec, req[c], n)
    /\ Contains(sec[Link(sec, req[c], n)], Colon)

\* C13 as stated: a chain of k alias names ending in a value with ':' is
\* resolved in exactly k + 1 lookups, returning that value.
C13_Original ==
    \A c \in Callers : FinishedOnSection(c) =>
        \A n \in Steps(c) : ChainEndsAt(c, n) =>
            /\ lookups[c] = (n + 1) + 1
            /\ res[c] = Ok(AliasSectionOf(c).val[Link(AliasSectionOf(c).val, req[c], n)])

\* C13 amended: a chain of k alias names ending in a value with ':' is
\* resolved in exactly k lookups, one per name of the chain, returning that
\* value.
C13_LookupsEqualChainLength ==
    \A c \in Callers : FinishedOnSection(c) =>
        \A n \in Steps(c) : ChainEndsAt(c, n) =>
            /\ lookups[c] = n + 1
            /\ Len(stack[c]) = n + 1
            /\ res[c] = Ok(AliasSectionOf(c).val[Link(AliasSectionOf(c).val, req[c], n)])

\* A chain of three alias names was resolved.
C13_Witness ==
    \E c \in Callers :
        /\ FinishedOnSection(c)
        /\ ChainEndsAt(c, 2)
        /\ res[c].tag = "Ok"
        /\ lookups[c] = 3

\* The frame of call c changes in this step.
FrameChanges(c) ==
    <<pc[c], alias[c], stack[c], lookups[c]>>' # <<pc[c], alias[c], stack[c], lookups[c]>>

\* Call c has a section in which its requested name is an alias of itself.
SelfCycle(c) ==
    /\ ~Contains(req[c], Colon)
    /\ AliasSectionOf(c).tag = "Some"
    /\ req[c] \in DOMAIN AliasSectionOf(c).val
    /\ AliasSectionOf(c).val[req[c]] = req[c]

\* C15: for an alias A whose value is A, resolve_alias looks A up once,
\* records it, and returns AliasCycle([A], A) at the second visit; the only
\* iteration that does not return is the first one.
C15_SelfCycle ==
    [][ \A c \in Callers :
          /\ (SelfCycle(c)' /\ pc'[c] = "done") =>
                /\ res'[c] = AliasCycle(<<req'[c]>>, req'[c])
                /\ lookups'[c] = 1
          /\ (SelfCycle(c) /\ pc[c] = "loop" /\ pc'[c] = "loop" /\ FrameChanges(c)) =>
                /\ lookups[c] = 0
                /\ lookups'[c] = 1
                /\ stack'[c] = <<req[c]>>
                /\ alias'[c] = req[c]
      ]_vars

C15_Witness ==
    \E c \in Callers :
        /\ SelfCycle(c)
        /\ pc[c] = "done"
        /\ res[c].tag = "AliasCycle"
        /\ res[c].chain = <<req[c]>>

\* The frame of call c is well formed for its section: the stack holds
\* distinct keys of the section and one lookup was made per stack element,
\* plus at most one that missed.
FrameBounded(c) ==
    LET keys == DOMAIN AliasSectionOf(c).val IN
    /\ \A i \in DOMAIN stack[c] : stack[c][i] \in keys
    /\ \A i, j \in DOMAIN stack[c] : i # j => stack[c][i] # stack[c][j]
    /\ lookups[c] \in {Len(stack[c]), Len(stack[c]) + 1}
    /\ lookups[c] <= Cardinality(keys) + 1

\* C17: every iteration of the loop either returns or puts a new key of the
\* section on the stack, so a call makes at most (entries + 1) lookups and
\* ends with a target or one of the four errors.
C17_Terminates ==
    [][ \A c \in Callers :
          /\ (pc'[c] \in {"loop", "done"} /\ ~Contains(req'[c], Colon)
                 /\ AliasSectionOf(c)'.tag = "Some") => FrameBounded(c)'
          /\ (pc[c] = "loop" /\ pc'[c] = "loop" /\ FrameChanges(c)) =>
                /\ ~StackContains(stack[c], alias[c])
                /\ stack'[c] = Append(stack[c], alias[c])
                /\ lookups'[c] = lookups[c] + 1
          /\ pc'[c] = "done" =>
                res'[c].tag \in {"Ok", "MissingAliasSection", "NotAnAlias",
                                 "AliasChainBroken", "AliasCycle"}
      ]_vars

\* A call that made one lookup more than the section has entries.
C17_Witness ==
    \E c \in Callers :
        /\ FinishedOnSection(c)
        /\ Cardinality(DOMAIN AliasSectionOf(c).val) >= 2
        /\ lookups[c] = Cardinality(DOMAIN AliasSectionOf(c).val) + 1
\* What resolve_alias returns for a name on a configuration when nothing
\* else runs, stated by the links of the section: the chain is followed as
\* far as it goes and the name it stops at decides.
Outcome(config, name) ==
    IF Contains(name, Colon) THEN NotAnAlias
    ELSE IF config["alias"].tag = "None" THEN MissingAliasSection
    ELSE LET sec == config["alias"].val
             n == CHOOSE m \in 0 .. Cardinality(DOMAIN sec) :
                      FollowsLinks(sec, name, m) /\ ~FollowsLinks(sec, name, m + 1)
             last == Link(sec, name, n)
         IN IF \E i \in 0 .. (n - 1) : Link(sec, name, i) = last
            THEN AliasCycle(Visited(sec, name, n), last)
            ELSE IF last \notin DOMAIN sec
            THEN IF n = 0 THEN NotAnAlias
                 ELSE AliasChainBroken(Visited(sec, name, n + 1))
            ELSE Ok(sec[last])

\* C16: under every interleaving of calls on one shared instance, a step
\* never changes the resolver, changes the frame of one call only, starts a
\* call with an empty visited stack, and a finished call holds the outcome
\* the same call has when run alone.
C16_CallsIndependent ==
    [][ /\ resolver' = resolver
        /\ \A c, d \in Callers : (c # d /\ FrameChanges(c)) => ~FrameChanges(d)
        /\ \A c \in Callers :
              /\ (pc[c] = "idle" /\ pc'[c] = "loop") => stack'[c] = <<>>
              /\ pc'[c] = "done" =>
                    res'[c] = Outcome(resolver[inst'[c]], req'[c])
      ]_vars

\* Two calls of the same name overlap: one is inside its loop behind the
\* other, which has already found the cycle.
C16_Witness ==
    \E c, d \in Callers :
        /\ c # d
        /\ pc[c] = "loop" /\ Len(stack[c]) >= 1
        /\ pc[d] = "done" /\ res[d].tag = "AliasCycle"
        /\ req[c] = req[d]
        /\ Len(res[d].chain) >= 2
\* Callers 1 and 2 have finished the same name on instances 1 and 2.
BothFinished ==
    /\ pc[1] = "done" /\ inst[1] = 1
    /\ pc[2] = "done" /\ inst[2] = 2
    /\ req[1] = req[2]

\* C19: on two equal resolver instances resolve_alias returns the same
\* outcome for every name, and so does get.
C19_EqualResolversResolveAlike ==
    (eqResult = "equal" /\ BothFinished) =>
        (res[1] = res[2] /\ ret[1] = ret[2])

\* Two different configurations compared equal and resolved a name through
\* at least one alias to the same target.
C19_Witness ==
    /\ eqResult = "equal"
    /\ resolver[1] # resolver[2]
    /\ BothFinished
    /\ res[1].tag = "Ok"
    /\ lookups[1] >= 2
    /\ res[1] = res[2]

\* C20: two resolvers without alias section are equal; a resolver without
\* alias section and one with the section are unequal, also when the
\* section is empty.
C20_PresenceIsPartOfEquality ==
    eqResult # "none" =>
        /\ (~AliasPresent(1) /\ ~AliasPresent(2)) => eqResult = "equal"
        /\ (AliasPresent(1) # AliasPresent(2)) => eqResult = "unequal"
        /\ ( /\ BothFinished
              /\ \/ ~AliasPresent(1) /\ AliasPresent(2) /\ AliasPairs(2) = {}
                 \/ ~AliasPresent(2) /\ AliasPresent(1) /\ AliasPairs(1) = {} )
           => (ret[1] = OkNone /\ ret[2] = OkNone)

\* One instance lacks the section, the other has it empty: get answers
\* "no alias" on both, yet they compared unequal.
C20_Witness ==
    /\ eqResult = "unequal"
    /\ ~AliasPresent(1)
    /\ AliasPresent(2) /\ AliasPairs(2) = {}
    /\ BothFinished
    /\ ~Contains(req[1], Colon)
    /\ ret[1] = OkNone /\ ret[2] = OkNone
\* The entries that were recomputed: they held a value before the last
\* computation stored its own.
Recomputed == {k \in DOMAIN cache : cache[k].notify # "none" /\ cache[k].prev.tag # "NoValue"}

\* Both the old and the new value of entry k are resolvers, and their
\* configurations have the same alias section.
SameAliasSection(k) ==
    /\ cache[k].prev.tag = "Ok"
    /\ cache[k].value.tag = "Ok"
    /\ cache[k].prev.val["alias"] = cache[k].value.val["alias"]

\* C11: after a recomputation the dependents are told of a change only if
\* the new value is not equal to the old one: when both computations
\* succeeded with equal alias sections they are not told, whatever else
\* differs in the configuration.
C11_EqualSectionNotPropagated ==
    \A k \in Recomputed :
        SameAliasSection(k) => cache[k].notify = "unchanged"

\* A recomputation on a configuration that changed outside the alias
\* section only, and was not propagated.
C11_Witness ==
    \E k \in Recomputed :
        /\ cache[k].notify = "unchanged"
        /\ cache[k].prev.tag = "Ok"
        /\ cache[k].prev.val # cache[k].value.val

\* C18: a recomputation whose old or new value is a failure is always
\* propagated as a change, two identical failures included; only two
\* successes with equal alias sections are not propagated.
C18_FailureNeverEqual ==
    \A k \in Recomputed :
        /\ (cache[k].prev.tag = "Err" \/ cache[k].value.tag = "Err") =>
              cache[k].notify = "changed"
        /\ cache[k].notify = "unchanged" => SameAliasSection(k)

\* The same failure computed twice in a row, and propagated.
C18_Witness ==
    \E k \in Recomputed :
        /\ cache[k].prev.tag = "Err"
        /\ cache[k].value = cache[k].prev
        /\ cache[k].notify = "changed"

\* C12: when a waiting requester gives up while another one still waits,
\* the computation stays in flight and the other keeps waiting; a
\* computation is cancelled only when nobody waits for it; a computation
\* that completes hands its own result to everyone still waiting.
C12_CancellationKeepsComputation ==
    [][ \A k \in DOMAIN cache : cache[k].state = "running" =>
          /\ cache'[k].state = "cancelled" => WaitersOf(k) = {}
          /\ \A r, w \in WaitersOf(k) :
                (r # w /\ reqs'[r].pc = "idle" /\ reqs'[w].pc = "waiting") =>
                    /\ cache'[k].state = "running"
                    /\ cache'[k].id = cache[k].id
          /\ cache'[k].state \in {"done", "stale"} =>
                /\ cache'[k].value.tag = cache[k].input.tag
                /\ \A w \in WaitersOf(k) :
                      /\ reqs'[w].pc = "got"
                      /\ AnswerIs(reqs'[w].res, cache'[k].value)
      ]_vars

\* A requester holds the result of a computation that another requester
\* stopped waiting for.
C12_Witness ==
    \E r \in Requesters, k \in DOMAIN cache :
        /\ reqs[r].pc = "got" /\ reqs[r].key = k /\ reqs[r].id = cache[k].id
        /\ reqs[r].how \in {"started", "joined"}
        /\ cache[k].cancelled
        /\ cache[k].state = "done"
        /\ AnswerIs(reqs[r].res, cache[k].value)
====
